---- MODULE Spec2Model ----
(***************************************************************************)
(* The policy governance controller of CloverAI:                           *)
(*   governance_automation/governance_scaler.py   (GovernanceScaler)       *)
(*   governance_automation/governance_automation.py (GovernanceEnforcer)   *)
(* The Kubernetes API (the target adapter) is the environment: a store of  *)
(* resources keyed by (kind, namespace, name) whose calls answer by the    *)
(* store's state or fail, and which other parties may change between two   *)
(* calls of the controller.                                                *)
(***************************************************************************)
EXTENDS Integers, Sequences, FiniteSets, TLC

\* ------------------------------------------------------------------ bounds
MaxBatch == 2      \* policy files in the configuration directory
MaxFaults == 1     \* adapter calls that fail with an error other than by state
MaxEnv == 1        \* changes other parties make to the cluster
MaxEvents == 2     \* violation events the stream delivers
MaxItems == 2      \* targets or constraints one remediation lists
MaxEnforce == 2    \* calls of GovernanceEnforcer.enforce_policy

\* ------------------------------------------------------------ data model
NoKey == "<absent>"                 \* a key the YAML document does not have
Kinds == {"NetworkPolicy", "Quota"} \* Quota: a generic custom-resource kind
Names == {"a", "b"}
Namespaces == {"default", "prod"}
DefaultNamespace == "default"

\* A resource body: a set of <<field, value>> pairs, one pair per field.
BodyAllow == {<<"ingress", "allow">>}
BodyDeny == {<<"ingress", "deny">>, <<"egress", "deny">>}
Bodies == {BodyAllow, BodyDeny}
FieldsOf(body) == {p[1] : p \in body}

\* The documents yaml.safe_load hands to the scaler: mappings whose kind,
\* metadata.name and metadata.namespace may each be missing. Every policy
\* asks for BodyAllow; what the cluster holds before may differ.
Docs ==
  [kind : Kinds \cup {NoKey}, name : Names \cup {NoKey},
   ns : {NoKey}, body : {BodyAllow}]

\* dict.get(key, default)
Get(value, default) == IF value = NoKey THEN default ELSE value

Keys == Kinds \X Namespaces \X Names

\* ---------------------------------------------------------------- state
VARIABLES
  pc,        \* main(): where the program is
  policies,  \* enforce_policies: the loaded policy list
  results,   \* enforce_policies: the gathered result of each task, by position
  summary,   \* the value enforce_policies returned
  epc,       \* the running _enforce_single_policy call: its next adapter call
  epol,      \* ... its policy argument
  ens,       \* ... its namespace argument
  eowner,    \* ... who awaits it
  cluster,   \* the target: existing keys -> body
  calls,     \* the adapter calls of the batch, or of the violation being
             \* handled, in order
  faults,    \* adapter faults so far
  envs,      \* external changes so far
  metrics,   \* the three Prometheus instruments
  wpc,       \* watch_policy_violations: where the watcher is
  wv,        \* ... the violation being handled
  wk,        \* ... the constraint _apply_constraints is at
  wret,      \* ... what the awaited enforcement returned or raised
  hist,      \* ... what handling it has done: events consumed so far,
             \* calls of _remediate_violation, log lines
  silent_mode, \* GovernanceEnforcer.silent_mode
  gpc,       \* GovernanceEnforcer: constructed or not
  gresult,   \* GovernanceEnforcer.enforce_policy: the last call and its outcome
  fresult    \* the module's enforce_policy function: the last call and its outcome

vars ==
  <<pc, policies, results, summary, epc, epol, ens, eowner, cluster, calls,
    faults, envs, metrics, wpc, wv, wk, wret, hist, silent_mode, gpc, gresult,
    fresult>>

enfVars == <<epc, epol, ens, eowner>>
batchVars == <<pc, policies, results, summary>>
adapterVars == <<cluster, calls, faults, envs>>
watchVars == <<wpc, wv, wk, wret, hist>>
gVars == <<silent_mode, gpc, gresult, fresult>>

Pending == [status |-> "pending"]
NoOwner == [who |-> "none", idx |-> 0, ev |-> 0]
WatchOwner(k, n) == [who |-> "watch", idx |-> k, ev |-> n]
TaskOwner(i) == [who |-> "task", idx |-> i, ev |-> 0]
NoDoc == [kind |-> NoKey, name |-> NoKey, ns |-> NoKey, body |-> {}]
NoSummary == [total_policies |-> 0, successful |-> 0, failed |-> 0,
              failures |-> <<>>]

\* ------------------------------------------------------------ violations
VTypes == {"quota"}
Severities == {"warning", "critical"}
NoRemediation ==
  [type |-> NoKey, policy |-> NoDoc, resources |-> <<>>, constraints |-> <<>>]
\* the policy documents a remediation carries
RemDocs ==
  [kind : Kinds, name : {"a"}, ns : {NoKey, "prod"}, body : {BodyAllow}]
ConstraintDocs == {d \in RemDocs : d.kind = "Quota"}
ScaleTargets ==
  [kind : {"Deployment", "StatefulSet", "DaemonSet"}, name : {"x"},
   namespace : {DefaultNamespace}, replicas : {3}]
SeqsUpTo(S, n) == UNION {[1..k -> S] : k \in 1..n}
Remediations ==
  {NoRemediation, [NoRemediation EXCEPT !.type = "restart_pods"]}
  \cup {[NoRemediation EXCEPT !.type = "update_policy", !.policy = d] : d \in RemDocs}
  \cup {[NoRemediation EXCEPT !.type = "scale_resources", !.resources = r] :
          r \in SeqsUpTo(ScaleTargets, MaxItems)}
  \cup {[NoRemediation EXCEPT !.type = "apply_constraints", !.constraints = c] :
          c \in SeqsUpTo(ConstraintDocs, MaxItems)}
\* violation['spec'] and violation['metadata'] of an event's object; the
\* violations are found in a namespace that is not the default one
ViolationNamespace == "prod"
Violations ==
  [type : VTypes, severity : Severities, ns : {ViolationNamespace}, name : {"v"},
   remediation : Remediations]
NoViolation ==
  [type |-> NoKey, severity |-> NoKey, ns |-> NoKey, name |-> NoKey,
   remediation |-> NoRemediation]
NoFile == [shape |-> "none", doc |-> NoDoc]
NoCall == [n |-> 0, file |-> NoFile, namespace |-> DefaultNamespace, out |-> Pending]
NoHist == [n |-> 0, dispatched |-> 0, log |-> <<>>]

\* An exception object; str(e) is its text.
Exc(type, status, text) == [exc |-> type, status |-> status, text |-> text]
IsException(r) == "exc" \in DOMAIN r
\* str(KeyError('name')) is "'name'"
KeyError(key) == Exc("KeyError", "", "'" \o key \o "'")
\* kubernetes.client.exceptions.ApiException: str(e) starts "(status)\nReason:"
ApiException(status) == Exc("ApiException", status, "(" \o status \o ")\nReason: ")
\* urllib3's error when the API server cannot be reached: no ApiException
MaxRetryError == Exc("MaxRetryError", "", "HTTPSConnectionPool: Max retries exceeded")
AttributeError(text) == Exc("AttributeError", "", text)
\* str(e)
StrOfReason(e) == IF e.exc = "ApiException" THEN e.text ELSE ""
StrOf(e) == e.text

\* policy_type = policy.get('kind', 'unknown')
PolicyType(policy) == Get(policy.kind, "unknown")
PolicyTypes == Kinds \cup {"unknown"}

InitMetrics ==
  [policy_violations |->
     [l \in (PolicyTypes \X {"error"}) \cup (VTypes \X Severities) |-> 0],
   enforcement_latency |-> [t \in PolicyTypes |-> 0],
   active_policies |-> [t \in PolicyTypes |-> 0]]

\* The clusters the controller may find: in each namespace of `nss`, any of
\* the resources named PreExisting, each holding BodyDeny.
PreExisting == {"a"}
InitClusters(nss) ==
  UNION {[ks -> {BodyDeny}] : ks \in SUBSET (Kinds \X nss \X PreExisting)}

BatchOff ==
  /\ pc = "off"
  /\ policies = <<>>
  /\ results = <<>>
  /\ summary = NoSummary

EnfIdle ==
  /\ epc = "idle"
  /\ epol = NoDoc
  /\ ens = DefaultNamespace
  /\ eowner = NoOwner

AdapterInit(nss) ==
  /\ cluster \in InitClusters(nss)
  /\ calls = <<>>
  /\ faults = 0
  /\ envs = 0

WatchOff ==
  /\ wpc = "off"
  /\ wv = NoViolation
  /\ wk = 0
  /\ wret = Pending
  /\ hist = NoHist

EnforcerOff ==
  /\ silent_mode = TRUE
  /\ gpc = "off"
  /\ gresult = NoCall
  /\ fresult = NoCall

\* main() of governance_scaler.py (319-332), before GovernanceScaler('config')
Init ==
  /\ pc = "construct"
  /\ policies = <<>>
  /\ results = <<>>
  /\ summary = NoSummary
  /\ EnfIdle
  /\ AdapterInit({DefaultNamespace})
  /\ metrics = InitMetrics
  /\ WatchOff
  /\ EnforcerOff

\* ---------------------------------------------------------- the adapter
NoFault == [exc |-> "none", text |-> ""]
\* What a call may fail with whatever the store holds: an API error that is
\* not 404, or a transport error that is no ApiException at all.
FaultExcs == {ApiException("500"), MaxRetryError}
FaultChoices == {NoFault} \cup (IF faults < MaxFaults THEN FaultExcs ELSE {})

\* A call on record: `out` is the exception it raised, NoFault when none.
Call(op, key, out) == [op |-> op, key |-> key, by |-> eowner, out |-> out]

\* replace_namespaced_network_policy: the stored body becomes the new body.
Replace(old, new) == new
\* patch_namespaced_custom_object (JSON merge patch): the fields of the patch
\* overwrite, the other fields of the stored body stay.
Patch(old, new) == {p \in old : p[1] \notin FieldsOf(new)} \cup new

PutDropped(key, body) == cluster
Put(key, body) == [k \in DOMAIN cluster \cup {key} |-> IF k = key THEN body ELSE cluster[k]]
Remove(key) == [k \in DOMAIN cluster \ {key} |-> cluster[k]]

\* ----------------------------------------- _enforce_single_policy (98-116)
Bump(f, x) == [f EXCEPT ![x] = @ + 1]

\* The `with enforcement_latency.labels(policy_type).time()` block records
\* one observation when it is left, by return or by exception.
ObserveLatency(m, policy) ==
  [m EXCEPT !.enforcement_latency = Bump(@, PolicyType(policy))]

\* lines 110-111: the success path.
SuccessMetrics(policy) ==
  [ObserveLatency(metrics, policy) EXCEPT
     !.active_policies = Bump(@, PolicyType(policy))]

FailureMetricsSkipLatency(policy) ==
  [metrics EXCEPT !.policy_violations = Bump(@, <<PolicyType(policy), "error">>)]
\* lines 113-116: the failure path.
FailureMetrics(policy) ==
  [ObserveLatency(metrics, policy) EXCEPT
     !.policy_violations = Bump(@, <<PolicyType(policy), "error">>)]

SuccessResult(policy) ==
  [status |-> "success", policy |-> policy.name, type |-> policy.kind]

\* asyncio.gather(..., return_exceptions=True) stores a task's return value
\* or exception at the task's position.
GatherStore(res, i, value) == [res EXCEPT ![i] = value]

\* The awaited call ends with `value`, a result or an exception: a task's
\* goes to gather, the watcher's remediation resumes with its own.
Return(owner, value) ==
  IF owner.who = "task"
  THEN /\ results' = GatherStore(results, owner.idx, value)
       /\ UNCHANGED <<pc, policies, summary, watchVars>>
  ELSE /\ wret' = value
       /\ wk' = owner.idx
       /\ wpc' = "resume"
       /\ UNCHANGED <<wv, hist, batchVars>>

AwaitDetached(owner) ==
  IF owner.who = "task"
  THEN UNCHANGED <<batchVars, watchVars>>
  ELSE /\ wpc' = "idle"
       /\ wk' = owner.idx
       /\ UNCHANGED <<wv, wret, hist, batchVars>>
\* The caller is suspended in `await self._enforce_single_policy(...)`.
Await(owner) ==
  IF owner.who = "task"
  THEN UNCHANGED <<batchVars, watchVars>>
  ELSE /\ wpc' = "awaiting"
       /\ wk' = owner.idx
       /\ UNCHANGED <<wv, wret, hist, batchVars>>

Leave ==
  /\ epc' = "idle"
  /\ epol' = NoDoc
  /\ ens' = DefaultNamespace
  /\ eowner' = NoOwner

\* lines 110-111
Succeed ==
  /\ metrics' = SuccessMetrics(epol)
  /\ Return(eowner, SuccessResult(epol))
  /\ Leave

\* lines 113-116
Fail(e) ==
  /\ metrics' = FailureMetrics(epol)
  /\ Return(eowner, e)
  /\ Leave

Continue(next) ==
  /\ epc' = next
  /\ UNCHANGED <<epol, ens, eowner, metrics, batchVars, watchVars>>

LookupErrorKindOnly(policy) ==
  IF policy.kind = NoKey THEN KeyError("kind") ELSE NoFault
LookupErrorNameOnly(policy) ==
  IF policy.name = NoKey THEN KeyError("name") ELSE NoFault
\* What the lookups before the first adapter call raise: both variants read
\* policy['metadata']['name'] first (180, 219), the generic one then
\* policy['kind'] (220).
LookupError(policy) ==
  IF policy.name = NoKey THEN KeyError("name")
  ELSE IF PolicyType(policy) # "NetworkPolicy" /\ policy.kind = NoKey
       THEN KeyError("kind")
       ELSE NoFault

\* lines 105-108: the variant a policy type selects, as its first adapter call
FirstCall(policy_type) ==
  IF policy_type = "NetworkPolicy" THEN "np_read" ELSE "gp_patch"

\* _enforce_single_policy(policy, namespace) awaited by `owner`, up to its
\* first adapter call.
Enter(policy, namespace, owner) ==
  IF LookupError(policy) # NoFault
  THEN /\ metrics' = FailureMetrics(policy)
       /\ Return(owner, LookupError(policy))
       /\ UNCHANGED enfVars
  ELSE /\ epc' = FirstCall(PolicyType(policy))
       /\ epol' = policy
       /\ ens' = namespace
       /\ eowner' = owner
       /\ Await(owner)
       /\ UNCHANGED metrics

\* ------------------ _apply_network_policy (175-212), _apply_generic_policy
\* (214-259): one action per adapter call
TargetKey == <<epol.kind, ens, epol.name>>

\* What the API server answers by the store's state.
ByState(op, key) ==
  IF op = "create"
  THEN IF key \in DOMAIN cluster THEN ApiException("409") ELSE NoFault
  ELSE IF key \in DOMAIN cluster THEN NoFault ELSE ApiException("404")

Outcome(op, key, f) == IF f # NoFault THEN f ELSE ByState(op, key)

\* `except client.exceptions.ApiException as e:` (192-201, 236-248): 404
\* falls back to create, anything else is raised again.
OnApiExceptionAlwaysCreate(status, create) == create
OnApiExceptionRaise(status, create) == "raise"
OnApiException(status, create) == IF status = "404" THEN create ELSE "raise"

\* An exception raised in the inner try block: an ApiException meets the
\* handler, any other exception passes it by.
Handled(e, create) ==
  IF e.exc = "ApiException" THEN OnApiException(e.status, create) ELSE "raise"

Issue(op, e, f) ==
  /\ calls' = Append(calls, Call(op, TargetKey, e))
  /\ faults' = IF f = NoFault THEN faults ELSE faults + 1
  /\ UNCHANGED <<envs, gVars>>

\* lines 184-186: a read that returns is followed by the replace.
AfterReadCreate == "np_create"
AfterRead == "np_replace"

\* line 184: read_namespaced_network_policy(name, namespace)
np_read ==
  /\ epc = "np_read"
  /\ \E f \in FaultChoices :
       LET e == Outcome("read", TargetKey, f) IN
       /\ Issue("read", e, f)
       /\ UNCHANGED cluster
       /\ IF e = NoFault THEN Continue(AfterRead)
          ELSE IF Handled(e, "np_create") = "raise" THEN Fail(e)
          ELSE Continue(Handled(e, "np_create"))

\* lines 186-190: replace_namespaced_network_policy(name, namespace, body)
np_replace ==
  /\ epc = "np_replace"
  /\ \E f \in FaultChoices :
       LET e == Outcome("replace", TargetKey, f) IN
       /\ Issue("replace", e, f)
       /\ IF e = NoFault
          THEN /\ cluster' = Put(TargetKey, Replace(cluster[TargetKey], epol.body))
               /\ Succeed
          ELSE /\ UNCHANGED cluster
               /\ IF Handled(e, "np_create") = "raise" THEN Fail(e)
                  ELSE Continue(Handled(e, "np_create"))

\* lines 195-198: create_namespaced_network_policy(namespace, body), inside
\* the handler: what it raises is not handled again.
np_create ==
  /\ epc = "np_create"
  /\ \E f \in FaultChoices :
       LET e == Outcome("create", TargetKey, f) IN
       /\ Issue("create", e, f)
       /\ IF e = NoFault
          THEN /\ cluster' = Put(TargetKey, epol.body)
               /\ Succeed
          ELSE /\ UNCHANGED cluster
               /\ Fail(e)

\* lines 227-234: patch_namespaced_custom_object(..., name, body)
gp_patch ==
  /\ epc = "gp_patch"
  /\ \E f \in FaultChoices :
       LET e == Outcome("patch", TargetKey, f) IN
       /\ Issue("patch", e, f)
       /\ IF e = NoFault
          THEN /\ cluster' = Put(TargetKey, Patch(cluster[TargetKey], epol.body))
               /\ Succeed
          ELSE /\ UNCHANGED cluster
               /\ IF Handled(e, "gp_create") = "raise" THEN Fail(e)
                  ELSE Continue(Handled(e, "gp_create"))

\* lines 239-245: create_namespaced_custom_object(..., body)
gp_create ==
  /\ epc = "gp_create"
  /\ \E f \in FaultChoices :
       LET e == Outcome("create", TargetKey, f) IN
       /\ Issue("create", e, f)
       /\ IF e = NoFault
          THEN /\ cluster' = Put(TargetKey, epol.body)
               /\ Succeed
          ELSE /\ UNCHANGED cluster
               /\ Fail(e)

\* ------------------------------------------------------- the environment
\* Other parties change the cluster at any time. Only a change to the key of
\* the enforcement in progress, made before one of its adapter calls, can be
\* seen by the controller; a change at another moment is the same to it as
\* one made just before the next enforcement's first call.

\* Another party deletes the resource.
external_delete ==
  /\ epc # "idle"
  /\ envs < MaxEnv
  /\ TargetKey \in DOMAIN cluster
  /\ cluster' = Remove(TargetKey)
  /\ envs' = envs + 1
  /\ UNCHANGED <<calls, faults, batchVars, enfVars, metrics, watchVars, gVars>>

\* Another party creates or overwrites the resource, with its own body.
external_apply ==
  /\ epc # "idle"
  /\ envs < MaxEnv
  /\ ~(TargetKey \in DOMAIN cluster /\ cluster[TargetKey] = BodyDeny)
  /\ cluster' = Put(TargetKey, BodyDeny)
  /\ envs' = envs + 1
  /\ UNCHANGED <<calls, faults, batchVars, enfVars, metrics, watchVars, gVars>>

\* --------------------------------------------------- main() and the batch
\* main passes 'default' (line 323)
BatchNamespace == DefaultNamespace

\* The directory's .yaml files in os.listdir order, each already a mapping
\* (line 92 raises for any other document, and the load fails).
Batches == UNION {[1..n -> Docs] : n \in 0..MaxBatch}

\* GovernanceScaler('config') (20-24, 44-54): _init_kubernetes raises again
\* what load_kube_config raised, and main logs it and ends (329-330).
construct ==
  /\ pc = "construct"
  /\ \E ok \in BOOLEAN : pc' = IF ok THEN "enforce" ELSE "init_failed"
  /\ UNCHANGED <<policies, results, summary, enfVars, adapterVars, metrics,
                 watchVars, gVars>>

\* enforce_policies, lines 67-76: load the policies, create one task per
\* policy, await gather. A failing load is raised to the caller (79-81).
load_policies ==
  /\ pc = "enforce"
  /\ \/ \E batch \in Batches :
          /\ policies' = batch
          /\ results' = [i \in 1..Len(batch) |-> Pending]
          /\ pc' = "gather"
     \/ /\ pc' = "raised"
        /\ UNCHANGED <<policies, results>>
  /\ UNCHANGED <<summary, enfVars, adapterVars, metrics, watchVars, gVars>>

\* The event loop runs the ready tasks in the order create_task queued them;
\* no coroutine of a task awaits anything that suspends (the adapter calls
\* are plain blocking calls), so a task runs from its first step to its last
\* before the next task's first step.
NextTask(i) ==
  /\ results[i] = Pending
  /\ \A j \in 1..(i - 1) : results[j] # Pending

task_start ==
  /\ pc = "gather"
  /\ epc = "idle"
  /\ \E i \in 1..Len(policies) :
       /\ NextTask(i)
       /\ Enter(policies[i], BatchNamespace, TaskOwner(i))
  /\ UNCHANGED <<adapterVars, gVars>>

\* gather(*tasks, return_exceptions=True) is done when every task is.
GatherFailFast(res) ==
  \/ \A i \in DOMAIN res : res[i] # Pending
  \/ \E i \in DOMAIN res : IsException(res[i])
GatherDone(res) == \A i \in DOMAIN res : res[i] # Pending

\* lines 273-281, one turn of the loop
TallyPrepend(sum, result, policy) ==
  IF IsException(result)
  THEN [sum EXCEPT !.failed = @ + 1,
                   !.failures = <<[policy_name |-> Get(policy.name, "None"),
                                   error |-> StrOf(result)]>> \o @]
  ELSE [sum EXCEPT !.successful = @ + 1]
TallyUncounted(sum, result, policy) ==
  IF IsException(result)
  THEN [sum EXCEPT !.failures = Append(@, [policy_name |-> Get(policy.name, "None"),
                                           error |-> StrOf(result)])]
  ELSE [sum EXCEPT !.successful = @ + 1]
Tally(sum, result, policy) ==
  IF IsException(result)
  THEN [sum EXCEPT !.failed = @ + 1,
                   !.failures = Append(@, [policy_name |-> Get(policy.name, "None"),
                                           error |-> StrOf(result)])]
  ELSE [sum EXCEPT !.successful = @ + 1]

RECURSIVE Zip(_, _, _, _)
Zip(sum, res, pols, i) ==
  IF i > Len(res) \/ i > Len(pols) THEN sum
  ELSE Zip(Tally(sum, res[i], pols[i]), res, pols, i + 1)

\* _process_results (261-283)
ProcessResults(res, pols) ==
  Zip([total_policies |-> Len(pols), successful |-> 0, failed |-> 0,
       failures |-> <<>>], res, pols, 1)

AfterGatherRaising(res) ==
  IF \E i \in DOMAIN res : IsException(res[i]) THEN "raised" ELSE "returned"
\* line 76: with return_exceptions=True a task's exception is a value of the
\* list gather returns, and enforce_policies goes on to line 77
AfterGather(res) == "returned"

\* lines 76-77: gather returns, the summary is built and returned
process_results ==
  /\ pc = "gather"
  /\ epc = "idle"
  /\ GatherDone(results)
  /\ summary' = ProcessResults(results, policies)
  /\ pc' = AfterGather(results)
  /\ UNCHANGED <<policies, results, enfVars, adapterVars, metrics, watchVars, gVars>>

\* The task running enforce_policies is cancelled while it awaits gather
\* (76), as asyncio.run does with main() on an interrupt. The request may
\* come at any moment but takes effect at a task boundary: the task that is
\* running goes on to its end since none of its steps suspends, gather
\* cancels the tasks that are not done, a task that has not started never
\* runs, and CancelledError, which `except Exception` (79) does not catch,
\* leaves enforce_policies before _process_results is called.
cancel_batch ==
  /\ pc = "gather"
  /\ epc = "idle"
  /\ pc' = "cancelled"
  /\ UNCHANGED <<policies, results, summary, enfVars, adapterVars, metrics,
                 watchVars, gVars>>

Enforcement == np_read \/ np_replace \/ np_create \/ gp_patch \/ gp_create
Environment == external_delete \/ external_apply

Next ==
  \/ construct
  \/ load_policies
  \/ task_start
  \/ np_read
  \/ np_replace
  \/ np_create
  \/ gp_patch
  \/ gp_create
  \/ process_results
  \/ cancel_batch
  \/ external_delete
  \/ external_apply

Spec == Init /\ [][Next]_vars

\* --------------------------------------------------------- the watcher
\* line 143: only a critical violation is remediated
ShouldRemediateAny(severity) == TRUE
ShouldRemediate(severity) == severity = "critical"

Logged(lines) == [hist EXCEPT !.log = @ \o lines]

\* The log lines of an exception on its way out of _remediate_violation
\* (172), _handle_violation (151) and watch_policy_violations (130).
RaiseLines == <<"Remediation failed", "Error handling violation", "Error watching violations">>
\* lines 170 and 146-148: the remediation returns, the handler logs
DoneLines == <<"Remediation completed", "Policy violation detected">>

\* lines 139-141: policy_violations.labels(violation_type, severity).inc()
CountViolationCriticalOnly(m, v) ==
  IF v.severity = "critical"
  THEN [m EXCEPT !.policy_violations = Bump(@, <<v.type, v.severity>>)]
  ELSE m
CountViolation(m, v) ==
  [m EXCEPT !.policy_violations = Bump(@, <<v.type, v.severity>>)]

\* lines 173, 152, 131: the exception is raised again in every frame, so
\* the coroutine of the watch loop ends with it
AfterRaiseContinue == "idle"
AfterRaise == "stopped"

\* watch_policy_violations takes the next event (122-128) and
\* _handle_violation runs to its branch on the severity (136-144).
watch_next ==
  /\ wpc = "idle"
  /\ hist.n < MaxEvents
  /\ \E v \in Violations :
       /\ wv' = v
       /\ metrics' = CountViolation(metrics, v)
       /\ IF ShouldRemediate(v.severity)
          THEN /\ wpc' = "dispatch"
               /\ hist' = [n |-> hist.n + 1, dispatched |-> 1, log |-> <<>>]
          ELSE /\ wpc' = "idle"
               /\ hist' = [n |-> hist.n + 1, dispatched |-> 0,
                            log |-> <<"Policy violation detected">>]
  /\ calls' = <<>>
  /\ UNCHANGED <<wk, wret, cluster, faults, envs, batchVars, enfVars, gVars>>

\* The stream ends and the loop with it.
stream_end ==
  /\ wpc = "idle"
  /\ wpc' = "closed"
  /\ UNCHANGED <<wv, wk, wret, hist, adapterVars, metrics, batchVars, enfVars, gVars>>

remediate_unknown_raises ==
  /\ wpc = "dispatch"
  /\ wv.remediation.type \notin {"update_policy", "scale_resources", "apply_constraints"}
  /\ hist' = Logged(RaiseLines)
  /\ wpc' = AfterRaise
  /\ UNCHANGED <<wv, wk, wret, adapterVars, metrics, batchVars, enfVars, gVars>>

\* _remediate_violation (154-173) with a remediation that is missing or
\* empty (158), or whose type is none of the three (160-168).
remediate_nothing ==
  /\ wpc = "dispatch"
  /\ wv.remediation.type \notin {"update_policy", "scale_resources", "apply_constraints"}
  /\ hist' = IF wv.remediation.type = NoKey
              THEN Logged(<<"Policy violation detected">>)
              ELSE Logged(DoneLines)
  /\ wpc' = "idle"
  /\ UNCHANGED <<wv, wk, wret, adapterVars, metrics, batchVars, enfVars, gVars>>

\* lines 160-164: update_policy enforces the policy in the violation's namespace
remediate_update_policy ==
  /\ wpc = "dispatch"
  /\ wv.remediation.type = "update_policy"
  /\ Enter(wv.remediation.policy, wv.ns, WatchOwner(0, hist.n))
  /\ UNCHANGED <<adapterVars, gVars>>

\* _scale_resources (285-305): the class defines neither _scale_deployment
\* nor _scale_statefulset, so the first Deployment or StatefulSet target
\* raises AttributeError; targets of another kind are passed over.
ScaleError(resources) ==
  IF \E k \in 1..Len(resources) : resources[k].kind \in {"Deployment", "StatefulSet"}
  THEN AttributeError("'GovernanceScaler' object has no attribute")
  ELSE NoFault

\* lines 289-302: the position of the target at which the loop raises, 0 when
\* it raises at none
FirstScaled(resources) ==
  IF \E k \in 1..Len(resources) : resources[k].kind \in {"Deployment", "StatefulSet"}
  THEN CHOOSE k \in 1..Len(resources) :
         /\ resources[k].kind \in {"Deployment", "StatefulSet"}
         /\ \A j \in 1..(k - 1) : resources[j].kind \notin {"Deployment", "StatefulSet"}
  ELSE 0
\* the targets the loop gets to before the exception leaves it (303-305)
ScaleReached(resources) ==
  IF FirstScaled(resources) = 0 THEN 1..Len(resources) ELSE 1..FirstScaled(resources)

\* lines 165-166
remediate_scale_resources ==
  /\ wpc = "dispatch"
  /\ wv.remediation.type = "scale_resources"
  /\ IF ScaleError(wv.remediation.resources) # NoFault
     THEN /\ hist' = Logged(<<"Resource scaling failed">> \o RaiseLines)
          /\ wpc' = AfterRaise
     ELSE /\ hist' = Logged(DoneLines)
          /\ wpc' = "idle"
  /\ UNCHANGED <<wv, wk, wret, adapterVars, metrics, batchVars, enfVars, gVars>>

ConstraintNamespaceOfViolation(constraint) == wv.ns
\* line 313: constraint.get('metadata', {}).get('namespace', 'default')
ConstraintNamespace(constraint) == Get(constraint.ns, DefaultNamespace)

\* lines 167-168 and 310-314: the first constraint
remediate_apply_constraints ==
  /\ wpc = "dispatch"
  /\ wv.remediation.type = "apply_constraints"
  /\ Enter(wv.remediation.constraints[1],
           ConstraintNamespace(wv.remediation.constraints[1]), WatchOwner(1, hist.n))
  /\ UNCHANGED <<adapterVars, gVars>>

\* The awaited enforcement raised: the exception leaves every frame, each
\* logging it, and the watch loop ends (315-317, 171-173, 150-152, 129-131).
resume_raise ==
  /\ wpc = "resume"
  /\ IsException(wret)
  /\ hist' = IF wv.remediation.type = "apply_constraints"
              THEN Logged(<<"Constraint application failed">> \o RaiseLines)
              ELSE Logged(RaiseLines)
  /\ wpc' = AfterRaise
  /\ UNCHANGED <<wv, wk, wret, adapterVars, metrics, batchVars, enfVars, gVars>>

MoreConstraints ==
  wv.remediation.type = "apply_constraints" /\ wk < Len(wv.remediation.constraints)

\* lines 310-314: the loop goes on to the next constraint
resume_next_constraint ==
  /\ wpc = "resume"
  /\ ~IsException(wret)
  /\ MoreConstraints
  /\ Enter(wv.remediation.constraints[wk + 1],
           ConstraintNamespace(wv.remediation.constraints[wk + 1]),
           WatchOwner(wk + 1, hist.n))
  /\ UNCHANGED <<adapterVars, gVars>>

\* The remediation is done (170) and the handler logs the violation (146).
resume_done ==
  /\ wpc = "resume"
  /\ ~IsException(wret)
  /\ ~MoreConstraints
  /\ hist' = Logged(DoneLines)
  /\ wpc' = "idle"
  /\ UNCHANGED <<wv, wk, wret, adapterVars, metrics, batchVars, enfVars, gVars>>

\* main() after the batch: watch_policy_violations() (line 327)
WatchInit ==
  /\ pc = "watch"
  /\ policies = <<>>
  /\ results = <<>>
  /\ summary = NoSummary
  /\ EnfIdle
  /\ AdapterInit({ViolationNamespace})
  /\ metrics = InitMetrics
  /\ wpc = "idle"
  /\ wv = NoViolation
  /\ wk = 0
  /\ wret = Pending
  /\ hist = NoHist
  /\ EnforcerOff

WatchNext ==
  \/ watch_next
  \/ stream_end
  \/ remediate_nothing
  \/ remediate_update_policy
  \/ remediate_scale_resources
  \/ remediate_apply_constraints
  \/ resume_raise
  \/ resume_next_constraint
  \/ resume_done
  \/ np_read
  \/ np_replace
  \/ np_create
  \/ gp_patch
  \/ gp_create
  \/ external_delete
  \/ external_apply

WatchSpec == WatchInit /\ [][WatchNext]_vars

\* ------------------------------------- GovernanceEnforcer (lines 14-133)
\* What open() and yaml.safe_load make of a policy file: no file that can be
\* read, a document that is no mapping (an empty file, a list), a mapping
\* whose metadata key holds null, or a mapping as in Docs.
Files ==
  {[shape |-> sh, doc |-> NoDoc] : sh \in {"unreadable", "not_mapping", "null_metadata"}}
  \cup {[shape |-> "mapping", doc |-> d] : d \in Docs}
\* the namespace argument: any string, also one the cluster does not have
NamespaceArgs == Namespaces \cup {"ghost"}

\* lines 69-73: what reading the file and taking kind and name raise
ExtractionStrict(file) ==
  IF file.shape = "unreadable" THEN Exc("FileNotFoundError", "", "No such file or directory")
  ELSE IF file.shape \in {"not_mapping", "null_metadata"}
       THEN AttributeError("'NoneType' object has no attribute 'get'")
       ELSE IF file.doc.name = NoKey THEN KeyError("name") ELSE NoFault
Extraction(file) ==
  IF file.shape = "unreadable" THEN Exc("FileNotFoundError", "", "No such file or directory")
  ELSE IF file.shape \in {"not_mapping", "null_metadata"}
       THEN AttributeError("'NoneType' object has no attribute 'get'")
       ELSE NoFault

\* lines 75-84
SimulatedResult(file, namespace) ==
  [status |-> "simulated", policy_type |-> Get(file.doc.kind, "None"),
   namespace |-> namespace, name |-> Get(file.doc.name, "unnamed-policy"),
   mode |-> "silent"]

ActiveResultSimulated(file, namespace) ==
  [status |-> "simulated", policy_type |-> Get(file.doc.kind, "None"),
   namespace |-> namespace, mode |-> "active"]
\* lines 86-99: _enforce_network_policy and _enforce_generic_policy (105-119)
\* return None without a call when silent_mode is false; success is reported.
ActiveResult(file, namespace) ==
  [status |-> "success", policy_type |-> Get(file.doc.kind, "None"),
   namespace |-> namespace, mode |-> "active"]

\* GovernanceEnforcer.enforce_policy (57-103): the value returned or the
\* exception raised
EnforcePolicy(file, namespace, silent) ==
  IF Extraction(file) # NoFault THEN Extraction(file)
  ELSE IF silent THEN SimulatedResult(file, namespace)
  ELSE ActiveResult(file, namespace)

\* lines 26-30 and 33-43: the mode __init__ leaves, given its silent_mode
\* argument and whether the client can be set up
ConstructedMode(silent, kube_ok) == silent \/ ~kube_ok

\* enforce_policy and its helpers (57-133) assign nothing to self.silent_mode
ModeAfterFailOpen(silent, out) == silent \/ IsException(out)
ModeAfter(silent, out) == silent

\* line 17: `silent_mode: bool = True`, the value the module's function
\* constructs its enforcer with (147)
EnforcerDefaultActive == FALSE
EnforcerDefaultSilent == TRUE

\* __init__ (17-31): _init_kubernetes (33-43) turns a failed client setup
\* into silent mode; a failing _load_policies fails the construction.
enforcer_construct ==
  /\ gpc = "new"
  /\ \E silent \in BOOLEAN, kube_ok \in BOOLEAN, load_ok \in BOOLEAN :
       /\ silent_mode' = ConstructedMode(silent, kube_ok)
       /\ gpc' = IF load_ok THEN "ready" ELSE "failed"
  /\ UNCHANGED <<gresult, fresult, batchVars, enfVars, adapterVars, metrics, watchVars>>

\* enforce_policy(policy_file, namespace) on the constructed enforcer
enforcer_enforce_policy ==
  /\ gpc = "ready"
  /\ gresult.n < MaxEnforce
  /\ \E file \in Files, namespace \in NamespaceArgs :
       /\ gresult' = [n |-> gresult.n + 1, file |-> file, namespace |-> namespace,
                      out |-> EnforcePolicy(file, namespace, silent_mode)]
       /\ silent_mode' = ModeAfter(silent_mode, EnforcePolicy(file, namespace, silent_mode))
  /\ UNCHANGED <<gpc, fresult, batchVars, enfVars, adapterVars, metrics, watchVars>>

\* The module's enforce_policy(policy_file, namespace) (135-151): a new
\* GovernanceEnforcer on the file's directory with the default mode, whose
\* construction lists and loads that directory (45-55), then its
\* enforce_policy; every exception is logged and raised again.
module_enforce_policy ==
  /\ fresult.n < MaxEnforce
  /\ \E file \in Files, namespace \in NamespaceArgs, kube_ok \in BOOLEAN, load_ok \in BOOLEAN :
       fresult' = [n |-> fresult.n + 1, file |-> file, namespace |-> namespace,
                   out |-> IF load_ok
                           THEN EnforcePolicy(file, namespace,
                                              ConstructedMode(EnforcerDefaultSilent, kube_ok))
                           ELSE Exc("FileNotFoundError", "", "No such file or directory")]
  /\ UNCHANGED <<silent_mode, gpc, gresult, batchVars, enfVars, adapterVars, metrics,
                 watchVars>>

EnforcerInit ==
  /\ BatchOff
  /\ EnfIdle
  /\ AdapterInit({DefaultNamespace})
  /\ metrics = InitMetrics
  /\ WatchOff
  /\ silent_mode = TRUE
  /\ gpc = "new"
  /\ gresult = NoCall
  /\ fresult = NoCall

EnforcerNext == enforcer_construct \/ enforcer_enforce_policy

EnforcerSpec == EnforcerInit /\ [][EnforcerNext]_vars

\* CloverAI.run_pipeline (main.py 104-108) and the module's own main use
\* the function only; no enforcer instance outlives a call.
FunctionInit ==
  /\ BatchOff
  /\ EnfIdle
  /\ AdapterInit({DefaultNamespace})
  /\ metrics = InitMetrics
  /\ WatchOff
  /\ EnforcerOff

FunctionNext == module_enforce_policy

FunctionSpec == FunctionInit /\ [][FunctionNext]_vars

\* ================================================================ claims
IsSuccess(r) == ~IsException(r) /\ r # Pending
TaskCalls(i) == SelectSeq(calls, LAMBDA c : c.by = TaskOwner(i))
Tasks == 1..Len(policies)
FailedIdx == {i \in DOMAIN results : IsException(results[i])}
\* the k-th smallest element of a set of numbers
Kth(S, k) == CHOOSE x \in S : Cardinality({y \in S : y < x}) = k - 1
\* the failure entry the summary owes to the failed task i
EntryOf(i) == [policy_name |-> Get(policies[i].name, "None"), error |-> results[i].text]
Malformed(policy) == policy.kind = NoKey \/ policy.name = NoKey
MalformedIdx == {i \in Tasks : Malformed(policies[i])}
NotFound(e) == e.exc = "ApiException" /\ e.status = "404"
\* every adapter call so far succeeded, or answered 404 and the fallback did
AdapterSucceeds == \A k \in 1..Len(calls) : calls[k].out = NoFault \/ NotFound(calls[k].out)

\* C2: enforce_policies returns only when every task it launched has
\* completed, with a result or with an exception; a task that failed does
\* not keep a later task from running (a well-formed policy's task has
\* issued its adapter calls) nor its outcome from being collected.
C2_AllComplete ==
  pc = "returned" =>
    /\ DOMAIN results = Tasks
    /\ \A i \in Tasks :
         /\ results[i] # Pending
         /\ LookupError(policies[i]) = NoFault => Len(TaskCalls(i)) >= 1

C2_Witness ==
  /\ pc = "returned"
  /\ Len(policies) = 2
  /\ IsException(results[1])
  /\ IsSuccess(results[2])
  /\ Len(TaskCalls(2)) >= 1

C4_FailureOrder ==
  pc = "returned" =>
    /\ Len(summary.failures) = Cardinality(FailedIdx)
    /\ \A k \in 1..Len(summary.failures) :
         summary.failures[k] = EntryOf(Kth(FailedIdx, k))

C4_Witness ==
  /\ pc = "returned"
  /\ Len(summary.failures) = 2
  /\ summary.failures[1] # summary.failures[2]

\* C6: enforcing a well-formed policy P a second time right after the
\* first, with no external change and no adapter fault, succeeds both times
\* and no step of the second enforcement changes the cluster.
C6_Idempotent ==
  [][(/\ eowner.who = "task"
      /\ eowner.idx > 1
      /\ policies[eowner.idx - 1] = policies[eowner.idx]
      /\ envs' = 0
      /\ faults' = 0)
     => (/\ IsSuccess(results[eowner.idx - 1])
         /\ cluster' = cluster
         /\ ~IsException(results'[eowner.idx]))]_vars

C6_Witness ==
  /\ pc = "returned"
  /\ Len(policies) = 2
  /\ policies[1] = policies[2]
  /\ envs = 0
  /\ faults = 0
  /\ IsSuccess(results[1])
  /\ IsSuccess(results[2])
  /\ Len(TaskCalls(2)) >= 1

\* C8: an adapter error other than 404 ends the enforcement at that call:
\* the task's outcome is that very exception, its text is the error of the
\* task's failure entry, and no enforcement issues an adapter operation
\* twice.
C8_ErrorPropagates ==
  [](
    \A i \in Tasks :
      LET cs == TaskCalls(i) IN
      /\ \A a, b \in 1..Len(cs) : a # b => cs[a].op # cs[b].op
      /\ \A a \in 1..Len(cs) :
           (cs[a].out # NoFault /\ ~NotFound(cs[a].out)) =>
             /\ a = Len(cs)
             /\ results[i] = cs[a].out
             /\ pc = "returned" =>
                  summary.failures[Cardinality({j \in FailedIdx : j <= i})].error
                    = cs[a].out.text
    )

C8_Witness ==
  /\ pc = "returned"
  /\ \E i \in Tasks :
       /\ Len(TaskCalls(i)) = 2
       /\ TaskCalls(i)[2].out = ApiException("500")
       /\ summary.failures[1].error = ApiException("500").text

\* C9: every entry of the summary's failures has a non-empty error text,
\* whichever exception the task ended with.
C9_ErrorDetail ==
  pc = "returned" =>
    \A k \in 1..Len(summary.failures) : summary.failures[k].error # ""

C9_Witness ==
  /\ pc = "returned"
  /\ Len(summary.failures) = 2
  /\ results[1].exc = "KeyError"
  /\ results[2].exc = "MaxRetryError"

\* C1: a violation that is not critical is never handed to
\* _remediate_violation and its handling issues no adapter call and ends
\* with no enforcement under way, whatever remediation it carries; a
\* critical violation with a populated remediation is handed to it exactly
\* once.
C1_SeverityGating ==
  hist.n >= 1 =>
    /\ wv.severity # "critical" =>
         /\ hist.dispatched = 0
         /\ calls = <<>>
         /\ epc = "idle"
         /\ wpc \in {"idle", "closed"}
    /\ (wv.severity = "critical" /\ wv.remediation.type # NoKey) =>
         hist.dispatched = 1

C1_Witness ==
  /\ hist.n = 2
  /\ wv.severity = "warning"
  /\ wv.remediation.type = "update_policy"
  /\ wpc = "idle"
  /\ hist.dispatched = 0

\* C5 as claimed: in silent mode, enforcing any policy document that could
\* be read succeeds with a simulated outcome and no adapter call.
C5_AnyDocumentSimulated ==
  (silent_mode /\ gresult.n >= 1 /\ gresult.file.shape # "unreadable") =>
    /\ ~IsException(gresult.out)
    /\ gresult.out.status = "simulated"
    /\ calls = <<>>

\* C5, amended: in silent mode no enforcement issues an adapter call or
\* changes the cluster, and every document that is a mapping whose metadata
\* is absent or a mapping, whatever kind, name or namespace it has or lacks,
\* is answered with a simulated outcome.
C5_SimulationSafety ==
  (silent_mode /\ gresult.n >= 1) =>
    /\ calls = <<>>
    /\ gresult.file.shape = "mapping" =>
         /\ ~IsException(gresult.out)
         /\ gresult.out.status = "simulated"
         /\ gresult.out.mode = "silent"

C5_Witness ==
  /\ silent_mode
  /\ gresult.n >= 1
  /\ gresult.file.shape = "mapping"
  /\ gresult.file.doc.kind = NoKey
  /\ gresult.file.doc.name = NoKey
  /\ gresult.namespace = "ghost"
  /\ gresult.out.status = "simulated"

\* C7: after an enforcement in active mode that reported success, the
\* cluster holds the policy's resource with the policy's body.
C7_CreateOrReplace ==
  (/\ ~silent_mode
   /\ gresult.n >= 1
   /\ ~IsException(gresult.out)
   /\ gresult.out.status = "success"
   /\ gresult.file.doc.kind \in Kinds
   /\ gresult.file.doc.name \in Names
   /\ gresult.namespace \in Namespaces) =>
    LET key == <<gresult.file.doc.kind, gresult.namespace, gresult.file.doc.name>> IN
    /\ key \in DOMAIN cluster
    /\ cluster[key] = gresult.file.doc.body

\* C10: a critical violation without a remediation, once handled, has left
\* a record of a failed remediation.
C10_UnremediableRecorded ==
  (/\ hist.n >= 1
   /\ wv.severity = "critical"
   /\ wv.remediation.type = NoKey
   /\ wpc # "dispatch") =>
    \E k \in 1..Len(hist.log) : hist.log[k] = "Remediation failed"

\* what has become of the violation in wv once its handling is over
ViolationHandled(type) ==
  /\ hist.n >= 1
  /\ wv.severity = "critical"
  /\ wv.remediation.type = type
  /\ wpc \in {"idle", "stopped", "closed"}

IsScaled(resource) == resource.kind \in {"Deployment", "StatefulSet"}

\* C11: once a scale_resources remediation has been handled, the loop has
\* got to every Deployment and StatefulSet target it lists, also to those
\* after a target whose scaling failed.
C11_ScaleIsolation ==
  ViolationHandled("scale_resources") =>
    \A k \in 1..Len(wv.remediation.resources) :
      IsScaled(wv.remediation.resources[k]) => k \in ScaleReached(wv.remediation.resources)

\* C15: once a scale_resources remediation has been handled, each
\* Deployment or StatefulSet target has exactly one set-replicas call on
\* record, keyed by its kind, namespace and name and carrying its replicas,
\* and the log holds exactly one of the lines of a completed and of a
\* failed remediation.
C15_ScaleCalls ==
  ViolationHandled("scale_resources") =>
    /\ \A k \in 1..Len(wv.remediation.resources) :
         LET r == wv.remediation.resources[k] IN
         IsScaled(r) =>
           \E j \in 1..Len(calls) :
             /\ calls[j].op = "scale"
             /\ calls[j].key = <<r.kind, r.namespace, r.name, r.replicas>>
    /\ Cardinality({k \in 1..Len(hist.log) :
          hist.log[k] \in {"Remediation completed", "Remediation failed"}}) = 1

\* C16: once an apply_constraints remediation has been handled, every
\* constraint it lists has been enforced and no exception has left the
\* remediation.
C16_ConstraintIsolation ==
  ViolationHandled("apply_constraints") =>
    /\ wk = Len(wv.remediation.constraints)
    /\ wpc # "stopped"

\* C12: constructing the controller of main() never fails, also when the
\* cluster client cannot be set up.
C12_ConstructionFailsOpen == pc # "init_failed"

\* C13: every adapter call on record since the latest event was taken
\* belongs to that event, and the next event is taken only when the
\* handling of the one before is over, no enforcement under way; the events
\* are numbered in the order the stream delivers them.
C13_Sequential ==
  /\ [](\A j \in 1..Len(calls) : calls[j].by = WatchOwner(calls[j].by.idx, hist.n))
  /\ [][hist'.n # hist.n =>
          /\ hist'.n = hist.n + 1
          /\ wpc = "idle"
          /\ epc = "idle"]_vars

C13_Witness ==
  /\ hist.n = 2
  /\ wv.remediation.type = "update_policy"
  /\ Len(calls) >= 2
  /\ \E t \in PolicyTypes : metrics.enforcement_latency[t] >= 2
  /\ wpc = "idle"

Completed(t) ==
  {i \in DOMAIN results : results[i] # Pending /\ PolicyType(policies[i]) = t}

\* C17: at every moment of a batch and for every policy type, the latency
\* observations are as many as the enforcements of that type completed, the
\* gauge of the type counts those of them that succeeded and the counter
\* labelled (type, 'error') those that failed: each completed enforcement
\* has one observation and one increment, of the gauge or of the counter.
C17_MetricsPerOperation ==
  [](
    \A t \in PolicyTypes :
      LET done == Completed(t) IN
      /\ metrics.enforcement_latency[t] = Cardinality(done)
      /\ metrics.active_policies[t] = Cardinality({i \in done : IsSuccess(results[i])})
      /\ metrics.policy_violations[<<t, "error">>] =
           Cardinality({i \in done : IsException(results[i])})
    )

C17_Witness ==
  /\ pc = "returned"
  /\ Len(policies) = 2
  /\ metrics.active_policies["NetworkPolicy"] = 1
  /\ metrics.policy_violations[<<"Quota", "error">>] = 1
  /\ metrics.enforcement_latency["Quota"] = 1

\* C18: the step that takes an event increments the counter labelled with
\* the event's type and severity by one and no other counter, whatever the
\* severity; no other step, a remediation or its failure included, changes
\* a counter labelled with a violation's type and severity.
C18_CountedOnce ==
  /\ [][hist'.n # hist.n =>
          metrics'.policy_violations =
            Bump(metrics.policy_violations, <<wv'.type, wv'.severity>>)]_vars
  /\ [][hist'.n = hist.n =>
          \A t \in VTypes, sv \in Severities :
            metrics'.policy_violations[<<t, sv>>] = metrics.policy_violations[<<t, sv>>]]_vars

C18_Witness ==
  /\ hist.n = 2
  /\ wpc = "stopped"
  /\ wv.severity = "critical"
  /\ metrics.policy_violations[<<"quota", "warning">>] = 1
  /\ metrics.policy_violations[<<"quota", "critical">>] = 1

\* C19: a failed remediation has been logged by _remediate_violation,
\* _handle_violation and watch_policy_violations in this order and has
\* ended the watch loop; once the loop has ended no event is taken and no
\* adapter call is issued.
C19_FirstFailureStops ==
  /\ []((\E k \in 1..Len(hist.log) : hist.log[k] = "Remediation failed") =>
          /\ wpc = "stopped"
          /\ Len(hist.log) >= 3
          /\ SubSeq(hist.log, Len(hist.log) - 2, Len(hist.log)) = RaiseLines)
  /\ []((wpc = "resume" /\ IsException(wret)) => ENABLED resume_raise)
  /\ [][wpc = "stopped" => (wpc' = "stopped" /\ hist' = hist /\ calls' = calls)]_vars

C19_Witness ==
  /\ wpc = "stopped"
  /\ hist.n = 1
  /\ wv.remediation.type = "update_policy"
  /\ IsException(wret)
  /\ hist.log = RaiseLines

\* C20: after a cancelled batch, once the enforcement that was running has
\* ended, the summary counts every task that had resolved, the successful
\* and the failed ones.
C20_CancelKeepsResolved ==
  (pc = "cancelled" /\ epc = "idle") =>
    /\ summary.successful = Cardinality({i \in Tasks : IsSuccess(results[i])})
    /\ summary.failed = Cardinality(FailedIdx)

\* C21: once the enforcer is constructed no step changes silent_mode, and
\* every outcome enforce_policy returns carries the mode of the instance.
C21_ModeFixed ==
  /\ [][gpc = "ready" => silent_mode' = silent_mode]_vars
  /\ []((gresult.n >= 1 /\ ~IsException(gresult.out)) =>
          (gresult.out.mode = "silent") = silent_mode)

C21_Witness ==
  /\ gpc = "ready"
  /\ ~silent_mode
  /\ gresult.n = 2
  /\ IsException(gresult.out)

\* C26 as claimed: the module's enforce_policy function answers every
\* policy file that can be read with status 'simulated' and mode 'silent'.
C26_FunctionAlwaysSimulated ==
  (fresult.n >= 1 /\ fresult.file.shape # "unreadable") =>
    /\ ~IsException(fresult.out)
    /\ fresult.out.status = "simulated"
    /\ fresult.out.mode = "silent"

\* C26, amended: the module's enforce_policy function never returns status
\* 'success' and never issues an adapter call, whatever the cluster holds;
\* what it returns is a simulated outcome in silent mode, and it returns
\* one whenever the directory of the file could be loaded and the file
\* holds a mapping whose metadata is absent or a mapping.
C26_FunctionSilent ==
  fresult.n >= 1 =>
    /\ calls = <<>>
    /\ ~IsException(fresult.out) =>
         /\ fresult.out.status = "simulated"
         /\ fresult.out.mode = "silent"
    /\ IsException(fresult.out) =>
         \/ fresult.file.shape # "mapping"
         \/ fresult.out.exc = "FileNotFoundError"

C26_Witness ==
  /\ fresult.n >= 1
  /\ fresult.file.shape = "mapping"
  /\ fresult.file.doc.kind = "NetworkPolicy"
  /\ fresult.out.status = "simulated"
  /\ cluster = <<>>

OwnNamespace(k) ==
  IF wv.remediation.constraints[k].ns = NoKey
  THEN DefaultNamespace
  ELSE wv.remediation.constraints[k].ns

\* C22: every enforcement and every adapter call of an apply_constraints
\* remediation is in the namespace the constraint document names, and in
\* 'default' when it names none, whatever the violation's namespace.
C22_ConstraintNamespace ==
  wv.remediation.type = "apply_constraints" =>
    /\ \A j \in 1..Len(calls) : calls[j].key[2] = OwnNamespace(calls[j].by.idx)
    /\ epc # "idle" => ens = OwnNamespace(eowner.idx)

C22_Witness ==
  /\ wv.remediation.type = "apply_constraints"
  /\ Len(wv.remediation.constraints) = 2
  /\ wv.ns = "prod"
  /\ wv.remediation.constraints[1].ns = "prod"
  /\ wv.remediation.constraints[2].ns = NoKey
  /\ \E j \in 1..Len(calls) : calls[j].by.idx = 1 /\ calls[j].key[2] = "prod"
  /\ \E j \in 1..Len(calls) : calls[j].by.idx = 2 /\ calls[j].key[2] = DefaultNamespace

\* C29: a critical violation whose remediation has a type that is none of
\* the three, once handled, has issued no adapter call and raised nothing:
\* the log holds the completed remediation and the handler's warning, the
\* loop is not stopped and takes the next event the stream delivers.
C29_UnknownTypeCompletes ==
  (/\ hist.n >= 1
   /\ wv.severity = "critical"
   /\ wv.remediation.type \notin {NoKey, "update_policy", "scale_resources", "apply_constraints"}
   /\ wpc # "dispatch") =>
    /\ calls = <<>>
    /\ epc = "idle"
    /\ hist.log = <<"Remediation completed", "Policy violation detected">>
    /\ wpc \in {"idle", "closed"}
    /\ (wpc = "idle" /\ hist.n < MaxEvents) => ENABLED watch_next

C29_Witness ==
  /\ hist.n = 1
  /\ wv.severity = "critical"
  /\ wv.remediation.type = "restart_pods"
  /\ wpc = "idle"
  /\ hist.log = <<"Remediation completed", "Policy violation detected">>

\* C23: enforce_policies has raised only when the load of the policies
\* failed, before any task ran; once every task of a batch has completed,
\* with whatever failures, the summary can be built and returned.
C23_NeverEscalated ==
  [](
    /\ pc = "raised" => (policies = <<>> /\ results = <<>> /\ calls = <<>>)
    /\ (pc = "gather" /\ epc = "idle" /\ GatherDone(results)) => ENABLED process_results
    /\ pc = "returned" => summary.failed = Cardinality(FailedIdx)
    )

C23_Witness ==
  /\ pc = "returned"
  /\ Len(policies) = 2
  /\ IsException(results[1])
  /\ results[1].exc = "KeyError"
  /\ IsException(results[2])
  /\ results[2].exc # "KeyError"
  /\ summary.failed = 2

\* C24: while an enforcement of the batch is between two of its adapter
\* calls and another task of the batch has not run yet, that task can take
\* its first step.
C24_Interleaving ==
  (/\ pc = "gather"
   /\ epc # "idle"
   /\ eowner.who = "task"
   /\ TaskCalls(eowner.idx) # <<>>
   /\ \E j \in Tasks : j # eowner.idx /\ results[j] = Pending) =>
    ENABLED task_start

\* C25: a returned summary has total_policies equal to the number of
\* policies, successful + failed equal to it, and as many failures as failed.
C25_Accounting ==
  pc = "returned" =>
    /\ summary.total_policies = Len(policies)
    /\ summary.successful + summary.failed = summary.total_policies
    /\ Len(summary.failures) = summary.failed

C25_Witness ==
  /\ pc = "returned"
  /\ summary.total_policies = 2
  /\ summary.successful = 1
  /\ summary.failed = 1
  /\ Len(summary.failures) = 1

\* task i read its NetworkPolicy and the replace after it answered 404
Raced(i) ==
  /\ Len(TaskCalls(i)) >= 2
  /\ TaskCalls(i)[1].op = "read"
  /\ TaskCalls(i)[1].out = NoFault
  /\ TaskCalls(i)[2].op = "replace"
  /\ NotFound(TaskCalls(i)[2].out)

\* C28: an enforcement whose read found the resource and whose replace
\* answered 404 goes on to create it: while it runs, the create is its next
\* call; when it has ended, the create was its third and last call, and it
\* succeeded if the create did and failed with the create's error if not.
C28_ReplaceRace ==
  \A i \in {i \in Tasks : \E j \in 1..Len(calls) :
                            calls[j].op = "replace" /\ NotFound(calls[j].out)} :
    Raced(i) =>
      IF results[i] = Pending
      THEN Len(TaskCalls(i)) = 2 /\ epc = "np_create" /\ eowner = TaskOwner(i)
      ELSE /\ Len(TaskCalls(i)) = 3
           /\ TaskCalls(i)[3].op = "create"
           /\ TaskCalls(i)[3].out = NoFault => IsSuccess(results[i])
           /\ TaskCalls(i)[3].out # NoFault => results[i] = TaskCalls(i)[3].out

C28_Witness ==
  /\ Raced(1)
  /\ Len(TaskCalls(1)) = 3
  /\ TaskCalls(1)[3].out = NoFault
  /\ IsSuccess(results[1])

\* a batch of two NetworkPolicy documents with the same name
Duplicates ==
  /\ Len(policies) = 2
  /\ policies[1] = policies[2]
  /\ policies[1].kind = "NetworkPolicy"
  /\ policies[1].name # NoKey
OpsOf(i) == [k \in 1..Len(TaskCalls(i)) |-> TaskCalls(i)[k].op]

====
